---- MODULE Spec2Model ----
(***************************************************************************)
(* Newton-Cotes quadrature rules of numerical_methods/newton_cotes_formulas.c *)
(* (trapezoid, simpson1_3, simpson3_8, boole, mid_point_rule) and the       *)
(* tolerance comparison of its self-test, as state machines.                *)
(*                                                                          *)
(* A double is an IEEE 754 binary64 value: every +, -, * and / is rounded   *)
(* to the nearest double, ties to even, with subnormals, overflow to        *)
(* +-Infinity and NaN.  Mantissas are natural numbers kept as sequences of  *)
(* limbs, since a 53-bit mantissa and its products exceed 32-bit integers.  *)
(***************************************************************************)
EXTENDS Integers, Sequences, FiniteSets

\* ------------------------------------------------------------------------
\* Bounds of the model
\* ------------------------------------------------------------------------
MaxN == 6           \* general calls use n in (1 - NonPosN) .. MaxN
NonPosN == 2        \* how many n <= 0 are tried (0, -1)
MaxBound == 3       \* integer integration bounds are -MaxBound .. MaxBound
MaxN38 == 200       \* simpson3_8 on f0 over [1,3] is run for n in 1 .. MaxN38
MaxNConv == 32      \* f1 over [0,1] is run for n in 1 .. MaxNConv
MaxNPair == 2       \* two interleaved calls use n in 1 .. MaxNPair
MaxDelta == 4       \* the asserted expressions are tried on 4 + (2k+1)/400000, -MaxDelta <= k < MaxDelta

\* ------------------------------------------------------------------------
\* Program constants
\* ------------------------------------------------------------------------
MAX_ITERATIONS == 100

\* ------------------------------------------------------------------------
\* Natural numbers of any size: a sequence of limbs in base 2^15, the least
\* significant limb first, the last limb nonzero; << >> is 0.
\* ------------------------------------------------------------------------
LimbBits == 15

LimbBase == 32768

Pow2Table ==
    <<1, 2, 4, 8, 16, 32, 64, 128, 256, 512, 1024, 2048, 4096, 8192, 16384, 32768>>

\* 2^r for r in 0 .. 15
Pow2(r) == Pow2Table[r + 1]

Abs(k) == IF k < 0 THEN -k ELSE k

Sgn(k) == IF k > 0 THEN 1 ELSE IF k < 0 THEN -1 ELSE 0

Max(x, y) == IF x >= y THEN x ELSE y

Limb(a, i) == IF i <= Len(a) THEN a[i] ELSE 0

RECURSIVE NTrim(_)
NTrim(a) ==
    IF a = << >> THEN a
    ELSE IF a[Len(a)] # 0 THEN a
    ELSE NTrim(SubSeq(a, 1, Len(a) - 1))

RECURSIVE NAddC(_, _, _, _)
NAddC(a, b, i, c) ==
    IF i > Len(a) /\ i > Len(b) THEN (IF c = 0 THEN << >> ELSE <<c>>)
    ELSE LET t == Limb(a, i) + Limb(b, i) + c
         IN  <<t % LimbBase>> \o NAddC(a, b, i + 1, t \div LimbBase)

NAdd(a, b) == NAddC(a, b, 1, 0)

RECURSIVE NSubC(_, _, _, _)
NSubC(a, b, i, br) ==
    IF i > Len(a) THEN << >>
    ELSE LET t == a[i] - Limb(b, i) - br
         IN  <<IF t < 0 THEN t + LimbBase ELSE t>>
             \o NSubC(a, b, i + 1, IF t < 0 THEN 1 ELSE 0)

\* a - b for a >= b
NSub(a, b) == NTrim(NSubC(a, b, 1, 0))

RECURSIVE NCmpAt(_, _, _)
NCmpAt(a, b, i) ==
    IF i = 0 THEN 0
    ELSE IF a[i] # b[i] THEN (IF a[i] < b[i] THEN -1 ELSE 1)
    ELSE NCmpAt(a, b, i - 1)

\* -1, 0, 1 as a < b, a = b, a > b
NCmp(a, b) ==
    IF Len(a) # Len(b) THEN (IF Len(a) < Len(b) THEN -1 ELSE 1)
    ELSE NCmpAt(a, b, Len(a))

RECURSIVE NMulSmallC(_, _, _, _)
NMulSmallC(a, k, i, c) ==
    IF i > Len(a) THEN (IF c = 0 THEN << >> ELSE <<c>>)
    ELSE LET t == a[i] * k + c
         IN  <<t % LimbBase>> \o NMulSmallC(a, k, i + 1, t \div LimbBase)

\* a * k for 0 <= k <= 2^15
NMulSmall(a, k) ==
    IF k = 0 THEN << >> ELSE IF k = 1 THEN a ELSE NMulSmallC(a, k, 1, 0)

\* a * 2^(15 q)
NShiftLimbs(a, q) == IF a = << >> \/ q = 0 THEN a ELSE [i \in 1 .. q |-> 0] \o a

RECURSIVE NMulAt(_, _, _)
NMulAt(a, b, j) ==
    IF j > Len(b) THEN << >>
    ELSE NAdd(NShiftLimbs(NMulSmall(a, b[j]), j - 1), NMulAt(a, b, j + 1))

NMul(a, b) == IF Len(b) <= Len(a) THEN NMulAt(a, b, 1) ELSE NMulAt(b, a, 1)

\* a * 2^k
NShl(a, k) == NShiftLimbs(NMulSmall(a, Pow2(k % LimbBits)), k \div LimbBits)

\* limbs i .. Len(a) of a divided by d: <<quotient, rest>>
RECURSIVE NDivSmallAt(_, _, _)
NDivSmallAt(a, d, i) ==
    IF i > Len(a) THEN <<<< >>, 0>>
    ELSE LET res == NDivSmallAt(a, d, i + 1)
             t   == res[2] * LimbBase + a[i]
         IN  <<<<t \div d>> \o res[1], t % d>>

\* <<a div d, a mod d>> for 1 <= d <= 2^15
NDivSmall(a, d) ==
    IF d = 1 THEN <<a, 0>>
    ELSE LET res == NDivSmallAt(a, d, 1) IN <<NTrim(res[1]), res[2]>>

\* a div 2^k
NShr(a, k) ==
    IF k \div LimbBits >= Len(a) THEN << >>
    ELSE NDivSmall(SubSeq(a, (k \div LimbBits) + 1, Len(a)), Pow2(k % LimbBits))[1]

SmallBitLen(v) == CHOOSE k \in 1 .. LimbBits : Pow2(k - 1) <= v /\ v < Pow2(k)

\* the number of bits of a: 0 for 0
NBitLen(a) ==
    IF a = << >> THEN 0 ELSE (Len(a) - 1) * LimbBits + SmallBitLen(a[Len(a)])

NIsOdd(a) == a # << >> /\ a[1] % 2 = 1

SmallTrailingZeros(v) == CHOOSE k \in 0 .. LimbBits - 1 : v % Pow2(k + 1) = Pow2(k)

RECURSIVE NZeroLimbs(_, _)
NZeroLimbs(a, i) == IF a[i] # 0 THEN i - 1 ELSE NZeroLimbs(a, i + 1)

\* the number of trailing zero bits of a # 0
NTrailingZeros(a) ==
    LET z == NZeroLimbs(a, 1) IN z * LimbBits + SmallTrailingZeros(a[z + 1])

\* long division by d, the bits j .. 0 of one limb v brought down from the
\* top: qr = <<quotient, rest>> so far
RECURSIVE NDivBits(_, _, _, _)
NDivBits(v, d, j, qr) ==
    IF j < 0 THEN qr
    ELSE LET bit == (v \div Pow2(j)) % 2
             r2 == NAdd(NMulSmall(qr[2], 2), IF bit = 1 THEN <<1>> ELSE << >>)
             ge == NCmp(r2, d) >= 0
             q2 == NAdd(NMulSmall(qr[1], 2), IF ge THEN <<1>> ELSE << >>)
         IN  CHOOSE res \in {NDivBits(v, d, j - 1, nxt) :
                              nxt \in {<<q2, IF ge THEN NSub(r2, d) ELSE r2>>}} : TRUE

\* limbs i .. Len(a) of a divided by d: <<quotient, rest>>
RECURSIVE NDivLimbs(_, _, _)
NDivLimbs(a, d, i) ==
    IF i > Len(a) THEN <<<< >>, << >>>>
    ELSE CHOOSE qr \in {NDivBits(a[i], d, LimbBits - 1, hi) :
                             hi \in {NDivLimbs(a, d, i + 1)}} : TRUE

\* <<a div d, a mod d>> for d # 0
NDiv(a, d) ==
    IF Len(d) = 1 THEN LET res == NDivSmall(a, d[1])
                       IN  <<res[1], IF res[2] = 0 THEN << >> ELSE <<res[2]>>>>
    ELSE NDivLimbs(a, d, 1)

\* the natural number k >= 0 of an int
NOfInt(k) ==
    NTrim(<<k % LimbBase, (k \div LimbBase) % LimbBase,
            k \div (LimbBase * LimbBase)>>)

\* ------------------------------------------------------------------------
\* double: IEEE 754 binary64, every operation rounded to nearest, ties to
\* even.  A finite double is [k |-> "fin", s, m, e] with the value
\* s * m * 2^e: s is the sign (1, -1; 0 for zero), m an odd natural number
\* of at most 53 bits (<< >> for zero), -1074 <= e and bits(m) + e <= 1024.
\* +-Infinity is [k |-> "inf", s |-> +-1, ...] and NaN is [k |-> "nan", ...].
\* The model has one zero: the sign of a zero is not kept.
\* ------------------------------------------------------------------------
MantBits == 53

MinExp == -1074

MaxTop == 1024

Zero == [k |-> "fin", s |-> 0, m |-> << >>, e |-> 0]

NaN == [k |-> "nan", s |-> 0, m |-> << >>, e |-> 0]

Inf(s) == [k |-> "inf", s |-> s, m |-> << >>, e |-> 0]

IsNaN(x) == x.k = "nan"

IsInf(x) == x.k = "inf"

IsFinite(x) == x.k = "fin"

\* s * n * 2^e, which is known to be a double, in its one representation
Canon(s, n, e) ==
    IF n = << >> THEN Zero
    ELSE IF NBitLen(n) + e > MaxTop THEN Inf(s)
    ELSE LET tz == NTrailingZeros(n)
         IN  [k |-> "fin", s |-> s, m |-> NShr(n, tz), e |-> e + tz]

\* the double nearest to s * n * 2^e (to s * (n + t) * 2^e for some 0 < t < 1
\* when sticky), ties to even; Infinity from 2^1024 on
Round(s, n, e, sticky) ==
    LET sh == Max(NBitLen(n) - MantBits, MinExp - e)
    IN  IF sh <= 0 THEN Canon(s, n, e)
        ELSE LET q    == NShr(n, sh)
                 rest == NSub(n, NShl(q, sh))
                 c    == NCmp(rest, NShl(<<1>>, sh - 1))
                 up   == c > 0 \/ (c = 0 /\ (sticky \/ NIsOdd(q)))
             IN  Canon(s, IF up THEN NAdd(q, <<1>>) ELSE q, e + sh)

\* an int converted to double
IntV(i) == Canon(Sgn(i), NOfInt(Abs(i)), 0)

Neg(x) == [x EXCEPT !.s = -x.s]

\* the position above the top bit of a finite nonzero x
Top(x) == NBitLen(x.m) + x.e

\* -1, 0, 1 as |x| < |y|, |x| = |y|, |x| > |y|, for finite nonzero x and y
CmpMag(x, y) ==
    IF Top(x) # Top(y) THEN (IF Top(x) < Top(y) THEN -1 ELSE 1)
    ELSE IF x.e >= y.e THEN NCmp(NShl(x.m, x.e - y.e), y.m)
    ELSE NCmp(x.m, NShl(y.m, y.e - x.e))

\* x + y for finite nonzero x and y
AddFinite(x, y) ==
    IF Top(x) - Top(y) > MantBits + 7 THEN x
    ELSE IF Top(y) - Top(x) > MantBits + 7 THEN y
    ELSE LET e  == IF x.e <= y.e THEN x.e ELSE y.e
             nx == NShl(x.m, x.e - e)
             ny == NShl(y.m, y.e - e)
             c  == NCmp(nx, ny)
         IN  IF x.s = y.s THEN Round(x.s, NAdd(nx, ny), e, FALSE)
             ELSE IF c = 0 THEN Zero
             ELSE IF c > 0 THEN Round(x.s, NSub(nx, ny), e, FALSE)
             ELSE Round(y.s, NSub(ny, nx), e, FALSE)

Add(x, y) ==
    IF IsNaN(x) \/ IsNaN(y) THEN NaN
    ELSE IF IsInf(x) THEN (IF IsInf(y) /\ y.s # x.s THEN NaN ELSE x)
    ELSE IF IsInf(y) THEN y
    ELSE IF x.s = 0 THEN y
    ELSE IF y.s = 0 THEN x
    ELSE AddFinite(x, y)

Sub(x, y) == Add(x, Neg(y))

Mul(x, y) ==
    IF IsNaN(x) \/ IsNaN(y) THEN NaN
    ELSE IF IsInf(x) \/ IsInf(y)
         THEN (IF x.s = 0 \/ y.s = 0 THEN NaN ELSE Inf(x.s * y.s))
    ELSE IF x.s = 0 \/ y.s = 0 THEN Zero
    ELSE Round(x.s * y.s, NMul(x.m, y.m), x.e + y.e, FALSE)

\* x / y for finite nonzero x and y: the quotient of the mantissas to at
\* least 56 bits, the rest of the division as the sticky bit
DivFinite(x, y) ==
    IF y.m = <<1>> THEN Round(x.s * y.s, x.m, x.e - y.e, FALSE)
    ELSE LET sh == Max(0, NBitLen(y.m) - NBitLen(x.m) + MantBits + 3)
             qr == NDiv(NShl(x.m, sh), y.m)
         IN  Round(x.s * y.s, qr[1], x.e - y.e - sh, qr[2] # << >>)

\* x / y; a finite x divided by zero is +-Infinity, 0/0 is NaN
Div(x, y) ==
    IF IsNaN(x) \/ IsNaN(y) THEN NaN
    ELSE IF IsInf(y) THEN (IF IsInf(x) THEN NaN ELSE Zero)
    ELSE IF IsInf(x) THEN (IF y.s = 0 THEN x ELSE Inf(x.s * y.s))
    ELSE IF y.s = 0 THEN (IF x.s = 0 THEN NaN ELSE Inf(x.s))
    ELSE IF x.s = 0 THEN Zero
    ELSE DivFinite(x, y)

\* x < y on doubles; every comparison with NaN is false
Less(x, y) ==
    IF IsNaN(x) \/ IsNaN(y) THEN FALSE
    ELSE IF x.s # y.s THEN x.s < y.s
    ELSE IF x.s = 0 THEN FALSE
    ELSE IF IsInf(x) \/ IsInf(y)
         THEN (IF IsInf(x) /\ IsInf(y) THEN FALSE
               ELSE IF IsInf(x) THEN x.s < 0 ELSE y.s > 0)
    ELSE IF x.s > 0 THEN CmpMag(x, y) < 0
    ELSE CmpMag(x, y) > 0

\* the double a decimal literal p/q denotes, for ints p and q
Lit(p, q) == Div(IntV(p), IntV(q))

\* ------------------------------------------------------------------------
\* Example integrands
\* ------------------------------------------------------------------------
f0(x) == x

f1(x) == Mul(x, x)

f2(x) == Mul(Mul(x, x), x)

Integrands == {"f0", "f1", "f2"}

\* a call through a `function` pointer
Apply(f, x) ==
    CASE f = "f0" -> f0(x)
      [] f = "f1" -> f1(x)
      [] f = "f2" -> f2(x)

\* ------------------------------------------------------------------------
\* The five rules, piece by piece: the initial value of `area` from the
\* integrand's values at the bounds, the sample point and the term added by
\* loop iteration i, the first loop index, and the returned expression.
\* ------------------------------------------------------------------------
Rules == {"trapezoid", "simpson1_3", "simpson3_8", "boole", "mid_point_rule"}

ClosedRules == Rules \ {"mid_point_rule"}

\* (mutant) the quotient truncated to an integer, as if (b-a)/n were a
\* division of ints
StepSizeIntDiv(n, a, b) ==
    LET q == Div(Sub(b, a), IntV(n))
    IN  IF ~IsFinite(q) \/ q.e >= 0 THEN q
        ELSE Canon(q.s, NShr(q.m, -q.e), 0)

\* h = (b-a)/n, n converted to double
StepSize(n, a, b) == Div(Sub(b, a), IntV(n))

trapezoid_init(fa, fb) == Add(Mul(Lit(1, 2), fa), Mul(Lit(1, 2), fb))

trapezoid_term(i, y) == y

trapezoid_ret(area, h) == Mul(area, h)

simpson1_3_init(fa, fb) == Add(fa, fb)

\* (mutant) the weights 2 and 4 exchanged
simpson1_3_term_swapped(i, y) ==
    IF i % 2 = 0 THEN Mul(IntV(4), y) ELSE Mul(IntV(2), y)

simpson1_3_term(i, y) == IF i % 2 = 0 THEN Mul(IntV(2), y) ELSE Mul(IntV(4), y)

simpson1_3_ret(area, h) == Div(Mul(area, h), IntV(3))

simpson3_8_init(fa, fb) == Add(fa, fb)

simpson3_8_term(i, y) == IF i % 3 = 0 THEN Mul(IntV(2), y) ELSE Mul(IntV(3), y)

\* (mutant) 4/8 for the scale factor 3/8
simpson3_8_ret_four(area, h) == Div(Mul(IntV(4), Mul(area, h)), IntV(8))

simpson3_8_ret(area, h) == Div(Mul(IntV(3), Mul(area, h)), IntV(8))

boole_init(fa, fb) == Mul(IntV(7), Add(fa, fb))

\* (mutant) the weights 14 and 12 exchanged
boole_term_swapped(i, y) ==
    IF i % 2 # 0 THEN Mul(IntV(32), y)
    ELSE IF i % 4 = 0 THEN Mul(IntV(12), y) ELSE Mul(IntV(14), y)

boole_term(i, y) ==
    IF i % 2 # 0 THEN Mul(IntV(32), y)
    ELSE IF i % 4 = 0 THEN Mul(IntV(14), y) ELSE Mul(IntV(12), y)

boole_ret(area, h) == Div(Mul(IntV(2), Mul(area, h)), IntV(45))

mid_point_rule_term(i, y) == y

mid_point_rule_ret(area, h) == Mul(area, h)

\* (mutant) the midpoint offset h/2 forgotten
PointNoHalf(rule, i, a, h) == Add(a, Mul(IntV(i), h))

\* (mutant) i*h subtracted instead of added
PointMinus(rule, i, a, h) ==
    IF rule = "mid_point_rule"
    THEN Sub(Add(a, Div(h, IntV(2))), Mul(IntV(i), h))
    ELSE Sub(a, Mul(IntV(i), h))

\* the argument the integrand is called with in loop iteration i
Point(rule, i, a, h) ==
    IF rule = "mid_point_rule"
    THEN Add(Add(a, Div(h, IntV(2))), Mul(IntV(i), h))
    ELSE Add(a, Mul(IntV(i), h))

InitArea(rule, fa, fb) ==
    CASE rule = "trapezoid"      -> trapezoid_init(fa, fb)
      [] rule = "simpson1_3"     -> simpson1_3_init(fa, fb)
      [] rule = "simpson3_8"     -> simpson3_8_init(fa, fb)
      [] rule = "boole"          -> boole_init(fa, fb)
      [] rule = "mid_point_rule" -> Zero

Term(rule, i, y) ==
    CASE rule = "trapezoid"      -> trapezoid_term(i, y)
      [] rule = "simpson1_3"     -> simpson1_3_term(i, y)
      [] rule = "simpson3_8"     -> simpson3_8_term(i, y)
      [] rule = "boole"          -> boole_term(i, y)
      [] rule = "mid_point_rule" -> mid_point_rule_term(i, y)

RetValue(rule, area, h) ==
    CASE rule = "trapezoid"      -> trapezoid_ret(area, h)
      [] rule = "simpson1_3"     -> simpson1_3_ret(area, h)
      [] rule = "simpson3_8"     -> simpson3_8_ret(area, h)
      [] rule = "boole"          -> boole_ret(area, h)
      [] rule = "mid_point_rule" -> mid_point_rule_ret(area, h)

\* (mutant) every loop starts at i = 0
FirstIndexZero(rule) == 0

FirstIndex(rule) == IF rule = "mid_point_rule" THEN 0 ELSE 1

\* ------------------------------------------------------------------------
\* One call of a rule: its arguments, its locals, its position, the
\* arguments the integrand has been called with so far, and its return value
\* ------------------------------------------------------------------------
NewCall(rule, f, n, a, b) ==
    [rule |-> rule, f |-> f, n |-> n, a |-> a, b |-> b,
     pc |-> "start", i |-> 0, area |-> Zero, h |-> Zero,
     xs |-> << >>, ret |-> Zero]

\* The declarations before the loop.  The closed rules call f(a) and f(b);
\* C leaves the order of the two calls unspecified: `first` is the bound
\* whose call happens first.
EnterCall(c, first) ==
    [c EXCEPT !.h = StepSize(c.n, c.a, c.b),
              !.area = InitArea(c.rule, Apply(c.f, c.a), Apply(c.f, c.b)),
              !.xs = IF c.rule = "mid_point_rule" THEN << >>
                     ELSE IF first = "a" THEN <<c.a, c.b>> ELSE <<c.b, c.a>>,
              !.i = FirstIndex(c.rule),
              !.pc = "loop"]

\* One iteration of the for loop (i < n): area += term; i++
IterCall(c) ==
    LET x == Point(c.rule, c.i, c.a, c.h)
    IN  [c EXCEPT !.area = Add(c.area, Term(c.rule, c.i, Apply(c.f, x))),
                  !.xs = Append(c.xs, x),
                  !.i = c.i + 1]

\* Loop exit (i >= n) and the return statement
ReturnCall(c) ==
    [c EXCEPT !.ret = RetValue(c.rule, c.area, c.h), !.pc = "done"]

\* k successive loop iterations.  The k-fold application is split in halves
\* so that the evaluation depth stays logarithmic; the iterations are applied
\* in the same order as by the loop.  (The halves are bound by \in so that
\* each is evaluated once.)
RECURSIVE IterateTimes(_, _)
IterateTimes(c, k) ==
    IF k <= 0 THEN c
    ELSE IF k = 1 THEN IterCall(c)
    ELSE CHOOSE r \in {IterateTimes(half, k - (k \div 2)) :
                          half \in {IterateTimes(c, k \div 2)}} : TRUE

\* A call run from its entry to its return with nothing else running: the
\* loop runs for i = FirstIndex .. n-1
RunCall(c) ==
    ReturnCall(IterateTimes(EnterCall(c, "a"), c.n - FirstIndex(c.rule)))

RunAlone(rule, f, n, a, b) == RunCall(NewCall(rule, f, n, a, b)).ret

\* ------------------------------------------------------------------------
\* State
\* ------------------------------------------------------------------------
VARIABLES calls,    \* the rule calls in progress, by thread
          test      \* the asserted expression of test() being evaluated

vars == <<calls, test>>

IntBounds == {IntV(k) : k \in -MaxBound .. MaxBound}

\* the bounds are doubles: the integers and one value that is not an integer
Bounds == IntBounds \cup {Lit(1, 2)}

\* any rule, any example integrand, any n (also n <= 0), any bounds
GeneralInputs ==
    {NewCall(r, f, n, a, b) :
        r \in Rules, f \in Integrands, n \in (1 - NonPosN) .. MaxN,
        a \in Bounds, b \in Bounds}

\* what test() runs, f0 with MAX_ITERATIONS, over every pair of integer bounds
TestInputs ==
    {NewCall(r, "f0", MAX_ITERATIONS, IntV(a), IntV(b)) :
        r \in Rules, a \in -MaxBound .. MaxBound, b \in -MaxBound .. MaxBound}

\* simpson3_8 on test()'s integrand and interval, over n
Simpson38Inputs ==
    {NewCall("simpson3_8", "f0", n, IntV(1), IntV(3)) : n \in 1 .. MaxN38}

\* x^2 over [0,1], over n
ConvInputs ==
    {NewCall(r, "f1", n, IntV(0), IntV(1)) : r \in Rules, n \in 1 .. MaxNConv}

PairInputs ==
    {NewCall(r, f, n, ab[1], ab[2]) :
        r \in Rules, f \in {"f0", "f1"}, n \in 1 .. MaxNPair,
        ab \in {<<IntV(1), IntV(3)>>, <<IntV(0), IntV(1)>>}}

NoTest == [form |-> "none", d1 |-> Zero, d2 |-> Zero, p |-> Zero, pc |-> "none"]

Threads == DOMAIN calls

\* ------------------------------------------------------------------------
\* Actions of a rule call
\* ------------------------------------------------------------------------
Enter(t) ==
    /\ calls[t].pc = "start"
    /\ \E first \in {"a", "b"} :
          calls' = [calls EXCEPT ![t] = EnterCall(calls[t], first)]
    /\ UNCHANGED test

\* (mutant) `area` is one static variable shared by every call
IterateShared(t) ==
    /\ calls[t].pc = "loop"
    /\ calls[t].i < calls[t].n
    /\ calls' = [u \in Threads |->
                    IF u = t THEN IterCall(calls[t])
                    ELSE [calls[u] EXCEPT !.area = IterCall(calls[t]).area]]
    /\ UNCHANGED test

Iterate(t) ==
    /\ calls[t].pc = "loop"
    /\ calls[t].i < calls[t].n
    /\ calls' = [calls EXCEPT ![t] = IterCall(calls[t])]
    /\ UNCHANGED test

Return(t) ==
    /\ calls[t].pc = "loop"
    /\ ~(calls[t].i < calls[t].n)
    /\ calls' = [calls EXCEPT ![t] = ReturnCall(calls[t])]
    /\ UNCHANGED test

\* one call, of any rule on any arguments
Init ==
    /\ calls \in [{1} -> GeneralInputs]
    /\ test = NoTest

Next ==
    \/ \E t \in Threads : Enter(t)
    \/ \E t \in Threads : Iterate(t)
    \/ \E t \in Threads : Return(t)

Spec == Init /\ [][Next]_vars

\* one call of those test() makes, over a set of integer bounds
InitTestCalls ==
    /\ calls \in [{1} -> TestInputs]
    /\ test = NoTest

SpecTestCalls == InitTestCalls /\ [][Next]_vars

\* one call of simpson3_8 on test()'s integrand and interval
InitSimpson38 ==
    /\ calls \in [{1} -> Simpson38Inputs]
    /\ test = NoTest

SpecSimpson38 == InitSimpson38 /\ [][Next]_vars

\* one call on x^2 over [0,1]
InitConv ==
    /\ calls \in [{1} -> ConvInputs]
    /\ test = NoTest

SpecConv == InitConv /\ [][Next]_vars

\* two calls whose steps interleave
InitPair ==
    /\ calls \in [{1, 2} -> PairInputs]
    /\ test = NoTest

SpecPair == InitPair /\ [][Next]_vars

\* ------------------------------------------------------------------------
\* The self-test: assert(COMPARE_DOUBLE(r, result, precision) == 1) and
\* assert(COMPARE_DOUBLE(r, result, precision) == 0), as the preprocessor
\* expands them.  The macro body has no parentheses around it, so `== k`
\* binds to the macro's trailing 0:  cond ? 1 : (0 == k).
\* ------------------------------------------------------------------------
result == IntV(4)

precision == Lit(1, 100000)

\* ((d1 - p) < d2) && ((d1 + p) > d2)
COMPARE_DOUBLE_cond(d1, d2, p) == Less(Sub(d1, p), d2) /\ Less(d2, Add(d1, p))

\* the int value of the macro used on its own
COMPARE_DOUBLE(d1, d2, p) == IF COMPARE_DOUBLE_cond(d1, d2, p) THEN 1 ELSE 0

\* the int value of  COMPARE_DOUBLE(d1, d2, p) == k  after expansion; d1 is
\* the value of the rule call written as the macro's first argument (the
\* expansion repeats the call, and a rule returns the same value each time)
AssertedExpr(form, d1, d2, p) ==
    LET k == IF form = "eq1" THEN 1 ELSE 0
    IN  IF COMPARE_DOUBLE_cond(d1, d2, p) THEN 1 ELSE (IF 0 = k THEN 1 ELSE 0)

\* values a rule may hand to the assertion: what the five rules return in
\* test(), and values around result at odd multiples of precision/4
TestValues ==
    {RunAlone(r, "f0", MAX_ITERATIONS, IntV(1), IntV(3)) : r \in Rules}
    \cup {Add(result, Lit(2 * k + 1, 400000)) : k \in -MaxDelta .. MaxDelta - 1}

TestCases ==
    {[form |-> fm, d1 |-> d1, d2 |-> d2, p |-> p, pc |-> "assert"] :
        fm \in {"eq1", "eq0"}, d1 \in TestValues,
        d2 \in {result, Add(result, Mul(Lit(1, 2), precision))},
        p \in {precision, Add(precision, precision)}}

\* assert(...): the program goes on when the expression is nonzero, and
\* aborts when it is zero
assert_stmt ==
    /\ test.pc = "assert"
    /\ test' = [test EXCEPT !.pc =
                   IF AssertedExpr(test.form, test.d1, test.d2, test.p) # 0
                   THEN "passed" ELSE "aborted"]
    /\ UNCHANGED calls

InitTest ==
    /\ calls = << >>
    /\ test \in TestCases

NextTest == assert_stmt

SpecTest == InitTest /\ [][NextTest]_vars

\* ------------------------------------------------------------------------
\* What the claims are stated with
\* ------------------------------------------------------------------------
Done(c) == c.pc = "done"

\* |x|
AbsV(x) == [x EXCEPT !.s = Abs(x.s)]

\* x <= y on doubles
Leq(x, y) == Less(x, y) \/ (x = y /\ ~IsNaN(x))

\* |x - y| < p
Within(x, y, p) == Less(AbsV(Sub(x, y)), p)

\* the exact integral of f0 over [a, b]: (b^2 - a^2)/2
ExactLinear(a, b) == Div(Sub(Mul(b, b), Mul(a, a)), IntV(2))

\* the weights, scale factors and sample points of the rules' table
TableEndWeight(rule) ==
    CASE rule = "trapezoid" -> Lit(1, 2)
      [] rule = "simpson1_3" -> IntV(1)
      [] rule = "simpson3_8" -> IntV(1)
      [] rule = "boole" -> IntV(7)

TableWeight(rule, i) ==
    CASE rule = "trapezoid" -> 1
      [] rule = "simpson1_3" -> (IF i % 2 = 0 THEN 2 ELSE 4)
      [] rule = "simpson3_8" -> (IF i % 3 = 0 THEN 2 ELSE 3)
      [] rule = "boole" -> (IF i % 2 = 1 THEN 32 ELSE IF i % 4 = 0 THEN 14 ELSE 12)
      [] rule = "mid_point_rule" -> 1

\* the scale factor is TableScaleNum * h / TableScaleDen
TableScaleNum(rule) ==
    CASE rule = "simpson3_8" -> 3
      [] rule = "boole" -> 2
      [] OTHER -> 1

TableScaleDen(rule) ==
    CASE rule = "simpson1_3" -> 3
      [] rule = "simpson3_8" -> 8
      [] rule = "boole" -> 45
      [] OTHER -> 1

TablePoint(rule, i, a, h) ==
    IF rule = "mid_point_rule"
    THEN Add(Add(a, Div(h, IntV(2))), Mul(IntV(i), h))
    ELSE Add(a, Mul(IntV(i), h))

\* acc + w(lo)*f(x_lo) + ... + w(hi)*f(x_hi), the terms added one after the
\* other from lo to hi (the sum is split in halves to keep the evaluation
\* shallow; the order of the additions is that of the sum)
RECURSIVE TableSum(_, _, _, _, _, _, _)
TableSum(rule, f, a, h, acc, lo, hi) ==
    IF lo > hi THEN acc
    ELSE IF lo = hi
         THEN Add(acc, Mul(IntV(TableWeight(rule, lo)),
                           Apply(f, TablePoint(rule, lo, a, h))))
    ELSE CHOOSE r \in {TableSum(rule, f, a, h, half, ((lo + hi) \div 2) + 1, hi) :
                          half \in {TableSum(rule, f, a, h, acc, lo, (lo + hi) \div 2)}} :
            TRUE

\* the weighted sum of the table, the two bounds first
TableTotal(rule, f, n, a, h, b) ==
    IF rule = "mid_point_rule"
    THEN TableSum(rule, f, a, h, Zero, 0, n - 1)
    ELSE TableSum(rule, f, a, h,
                  Add(Mul(TableEndWeight(rule), Apply(f, a)),
                      Mul(TableEndWeight(rule), Apply(f, b))),
                  1, n - 1)

\* scale * sum, rounded as doubles in the order  num * (sum * h) / den
TableValue(rule, f, n, a, b) ==
    LET h == Div(Sub(b, a), IntV(n))
    IN  Div(Mul(IntV(TableScaleNum(rule)), Mul(TableTotal(rule, f, n, a, h, b), h)),
            IntV(TableScaleDen(rule)))

\* n has the divisibility the rule's weight pattern assumes
Ideal(rule, n) ==
    CASE rule = "simpson1_3" -> n % 2 = 0
      [] rule = "simpson3_8" -> n % 3 = 0
      [] rule = "boole" -> n % 4 = 0
      [] OTHER -> TRUE

NonDecreasing(s) == \A k \in 1 .. Len(s) - 1 : Leq(s[k], s[k + 1])

\* what rounding may add up to on the values of the model: 1e-9
RoundingTol == Lit(1, 1000000000)

\* |r - 1/3|, the error on the integral of x^2 over [0,1]
ErrThird(r) == AbsV(Sub(r, Lit(1, 3)))

IsConvCall(c) == c.f = "f1" /\ c.a = IntV(0) /\ c.b = IntV(1) /\ c.n >= 1

\* ------------------------------------------------------------------------
\* C1: for f(x) = x and n = 100, trapezoid, simpson1_3, mid_point_rule and
\* boole return a value within 1e-5 of the exact integral (b^2 - a^2)/2 for
\* all integer bounds a <= b, in particular within 1e-5 of 4.0 over [1,3].
\* ------------------------------------------------------------------------
C1_LinearWithinTolerance ==
    \A t \in Threads :
        LET c == calls[t]
        IN  (Done(c) /\ c.f = "f0" /\ c.n = MAX_ITERATIONS
                /\ c.rule # "simpson3_8" /\ Leq(c.a, c.b))
            => /\ Less(Sub(ExactLinear(c.a, c.b), precision), c.ret)
               /\ Less(c.ret, Add(ExactLinear(c.a, c.b), precision))

C1_Witness ==
    \E t \in Threads :
        /\ Done(calls[t]) /\ calls[t].rule = "boole" /\ calls[t].f = "f0"
        /\ calls[t].n = MAX_ITERATIONS
        /\ calls[t].a = IntV(1) /\ calls[t].b = IntV(3)
        /\ Len(calls[t].xs) = MAX_ITERATIONS + 1
        /\ COMPARE_DOUBLE(calls[t].ret, result, precision) = 1

\* ------------------------------------------------------------------------
\* C2: for f(x) = x over [1,3], simpson3_8 with n not a multiple of 3
\* (n = 100 in particular) returns a value r with |r - 4.0| >= 1e-5.
\* ------------------------------------------------------------------------
C2_Simpson38OffOnLinear ==
    \A t \in Threads :
        LET c == calls[t]
        IN  (Done(c) /\ c.rule = "simpson3_8" /\ c.f = "f0"
                /\ c.a = IntV(1) /\ c.b = IntV(3) /\ c.n >= 1 /\ c.n % 3 # 0)
            => ~Within(c.ret, result, precision)

C2_Witness ==
    \E t \in Threads :
        /\ Done(calls[t]) /\ calls[t].rule = "simpson3_8" /\ calls[t].f = "f0"
        /\ calls[t].n = MAX_ITERATIONS
        /\ calls[t].a = IntV(1) /\ calls[t].b = IntV(3)
        /\ Less(Lit(398504, 100000), calls[t].ret)
        /\ Less(calls[t].ret, Lit(398506, 100000))
        /\ COMPARE_DOUBLE(calls[t].ret, result, precision) = 0

\* ------------------------------------------------------------------------
\* C3: for every n >= 1 each rule returns exactly scale * sum of w(i)*f(x_i)
\* with the weights, scale factors and sample points of the table (as
\* doubles: the terms summed from the bounds on in index order, the sum
\* scaled as num * (sum * h) / den); for n = 1 trapezoid returns
\* 0.5*h*(f(a)+f(b)).
\* ------------------------------------------------------------------------
C3_TableFormula ==
    \A t \in Threads :
        LET c == calls[t]
        IN  (Done(c) /\ c.n >= 1)
            => /\ c.ret = TableValue(c.rule, c.f, c.n, c.a, c.b)
               /\ (c.rule = "trapezoid" /\ c.n = 1)
                    => c.ret = Mul(Mul(Lit(1, 2), Sub(c.b, c.a)),
                                   Add(Apply(c.f, c.a), Apply(c.f, c.b)))

C3_Witness ==
    \E t \in Threads :
        /\ Done(calls[t]) /\ calls[t].rule = "boole" /\ calls[t].f = "f2"
        /\ calls[t].n = 5 /\ calls[t].a = IntV(0) /\ calls[t].b = IntV(2)
        /\ Len(calls[t].xs) = 6
        /\ IsFinite(calls[t].ret) /\ calls[t].ret # Zero

\* ------------------------------------------------------------------------
\* C4 as claimed: swapping the bounds negates the result of every rule for
\* every n >= 1 (here even allowing the two values to differ by rounding,
\* |R(f,n,b,a) + R(f,n,a,b)| < 1e-9).
\* ------------------------------------------------------------------------
C4_SwapNegates ==
    \A t \in Threads :
        LET c == calls[t]
        IN  (Done(c) /\ c.n >= 1)
            => Within(RunAlone(c.rule, c.f, c.n, c.b, c.a), Neg(c.ret), RoundingTol)

\* C4 amended: up to rounding (|R(f,n,b,a) + R(f,n,a,b)| < 1e-9), swapping
\* the bounds negates the result of trapezoid and mid_point_rule for every
\* n >= 1, of simpson1_3 for even n, of simpson3_8 for n a multiple of 3 and
\* of boole for n a multiple of 4.
C4_SwapNegatesIdeal ==
    \A t \in Threads :
        LET c == calls[t]
        IN  (Done(c) /\ c.n >= 1 /\ Ideal(c.rule, c.n))
            => Within(RunAlone(c.rule, c.f, c.n, c.b, c.a), Neg(c.ret), RoundingTol)

C4_Witness ==
    \E t \in Threads :
        /\ Done(calls[t]) /\ calls[t].rule = "boole" /\ calls[t].f = "f2"
        /\ calls[t].n = 4 /\ calls[t].a = IntV(2) /\ calls[t].b = IntV(-1)
        /\ calls[t].ret # Zero
        /\ Within(RunAlone("boole", "f2", 4, IntV(-1), IntV(2)), Neg(calls[t].ret),
                  RoundingTol)

\* ------------------------------------------------------------------------
\* C5 as claimed: a call with n <= 0 is rejected: it never computes
\* h = (b-a)/n and never returns a number, NaN or an Infinity, that is, it
\* never gets past its entry.
\* ------------------------------------------------------------------------
C5_NonPositiveNRejected ==
    \A t \in Threads : calls[t].n <= 0 => calls[t].pc = "start"

\* ------------------------------------------------------------------------
\* C6 as claimed: for n >= 1 a call of any rule invokes the integrand exactly
\* n+1 times.
\* ------------------------------------------------------------------------
C6_InvokesNPlusOne ==
    \A t \in Threads :
        (Done(calls[t]) /\ calls[t].n >= 1) => Len(calls[t].xs) = calls[t].n + 1

\* C6 amended: for n >= 1 a call of a closed rule (trapezoid, simpson1_3,
\* simpson3_8, boole) invokes the integrand exactly n+1 times, and a call of
\* mid_point_rule invokes it exactly n times.
C6_InvocationCount ==
    \A t \in Threads :
        (Done(calls[t]) /\ calls[t].n >= 1)
        => Len(calls[t].xs) =
              IF calls[t].rule = "mid_point_rule" THEN calls[t].n ELSE calls[t].n + 1

C6_Witness ==
    \E t \in Threads :
        /\ Done(calls[t]) /\ calls[t].rule = "mid_point_rule"
        /\ calls[t].n = 4 /\ Len(calls[t].xs) = 4

\* ------------------------------------------------------------------------
\* C7 as claimed: within a call with a < b and n >= 1 the integrand is
\* invoked in ascending x order.
\* ------------------------------------------------------------------------
C7_AscendingOrder ==
    \A t \in Threads :
        LET c == calls[t]
        IN  (Done(c) /\ Less(c.a, c.b) /\ c.n >= 1) => NonDecreasing(c.xs)

\* C7 amended: within a call with a < b and n >= 1, mid_point_rule invokes
\* the integrand in ascending x order; a closed rule first invokes it on the
\* two bounds a and b (in either order) and then on the interior points
\* a + i*h in ascending order, each of them below b.
C7_InteriorAscending ==
    \A t \in Threads :
        LET c == calls[t]
        IN  (Done(c) /\ Less(c.a, c.b) /\ c.n >= 1)
            => IF c.rule = "mid_point_rule"
               THEN NonDecreasing(c.xs)
               ELSE /\ {c.xs[1], c.xs[2]} = {c.a, c.b}
                    /\ NonDecreasing(SubSeq(c.xs, 3, Len(c.xs)))
                    /\ \A k \in 3 .. Len(c.xs) : Less(c.xs[k], c.b)

C7_Witness ==
    \E t \in Threads :
        /\ Done(calls[t]) /\ calls[t].rule = "trapezoid" /\ calls[t].n = 4
        /\ calls[t].a = IntV(-1) /\ calls[t].b = IntV(3)
        /\ calls[t].xs = <<IntV(3), IntV(-1), IntV(0), IntV(1), IntV(2)>>

\* ------------------------------------------------------------------------
\* C8 as claimed: for f(x) = x^2 over [0,1] the error |R - 1/3| of each rule
\* at n2 is no larger than at any n1 < n2 (here even allowing rounding to
\* add 1e-9 to the error at n2).
\* ------------------------------------------------------------------------
C8_ErrorTightens ==
    \A t \in Threads :
        LET c == calls[t]
        IN  (Done(c) /\ IsConvCall(c))
            => \A n1 \in 1 .. c.n - 1 :
                  Leq(ErrThird(c.ret),
                      Add(ErrThird(RunAlone(c.rule, "f1", n1, IntV(0), IntV(1))),
                          RoundingTol))

\* C8 amended: for f(x) = x^2 over [0,1] the error of trapezoid and of
\* mid_point_rule at n2 is no larger than at any n1 < n2; the error of
\* simpson1_3 at even n, of simpson3_8 at multiples of 3 and of boole at
\* multiples of 4 is rounding only (below 1e-9).
C8_ErrorTightensIdeal ==
    \A t \in Threads :
        LET c == calls[t]
        IN  (Done(c) /\ IsConvCall(c) /\ Ideal(c.rule, c.n))
            => IF c.rule \in {"trapezoid", "mid_point_rule"}
               THEN \A n1 \in 1 .. c.n - 1 :
                       Leq(ErrThird(c.ret),
                           ErrThird(RunAlone(c.rule, "f1", n1, IntV(0), IntV(1))))
               ELSE Less(ErrThird(c.ret), RoundingTol)

C8_Witness ==
    \E t \in Threads :
        /\ Done(calls[t]) /\ IsConvCall(calls[t])
        /\ calls[t].rule = "trapezoid" /\ calls[t].n = 12
        /\ Less(RoundingTol, ErrThird(calls[t].ret))
        /\ Less(ErrThird(calls[t].ret),
                ErrThird(RunAlone("trapezoid", "f1", 11, IntV(0), IntV(1))))

\* ------------------------------------------------------------------------
\* C9: rule calls share no state: each of two calls whose steps interleave
\* returns the value it returns when run alone, and two calls with identical
\* arguments return identical values.
\* ------------------------------------------------------------------------
SameArgs(c, d) ==
    c.rule = d.rule /\ c.f = d.f /\ c.n = d.n /\ c.a = d.a /\ c.b = d.b

C9_CallsIndependent ==
    /\ \A t \in Threads :
          Done(calls[t])
          => calls[t].ret = RunAlone(calls[t].rule, calls[t].f, calls[t].n,
                                     calls[t].a, calls[t].b)
    /\ \A t \in Threads : \A u \in Threads :
          (Done(calls[t]) /\ Done(calls[u]) /\ SameArgs(calls[t], calls[u]))
          => calls[t].ret = calls[u].ret

C9_Witness ==
    /\ Threads = {1, 2}
    /\ Done(calls[1]) /\ Done(calls[2])
    /\ calls[1].rule = "boole" /\ calls[2].rule = "simpson1_3"
    /\ calls[1].f = "f1" /\ calls[2].f = "f1"
    /\ calls[1].n = 2 /\ calls[2].n = 2
    /\ calls[1].ret # calls[2].ret

\* ------------------------------------------------------------------------
\* C10 as claimed: the asserted expression COMPARE_DOUBLE(r, result, p) == 1
\* is true exactly when r is within p of result, and the asserted expression
\* COMPARE_DOUBLE(r, result, p) == 0 is true exactly when it is not, so that
\* the assertion used for simpson3_8 fails on a value within p of result.
\* ------------------------------------------------------------------------
C10_AssertDiscriminates ==
    test.pc \in {"passed", "aborted"}
    => /\ test.form = "eq1"
            => (test.pc = "passed" <=> Within(test.d1, test.d2, test.p))
       /\ test.form = "eq0"
            => (test.pc = "passed" <=> ~Within(test.d1, test.d2, test.p))

====
